---- MODULE Spec2Model ----
(***************************************************************************)
(* Model of the dadi demographic models (src/dadi/demographic_models.py)   *)
(* and of the fitting script (src/dadi/JPA_JTR_PAMex_folded.py).           *)
(*                                                                         *)
(* Real numbers are kept exactly, in hundredths: the integer v stands for  *)
(* the real v/100 (0.01 is 1, 1 is 100, 12 is 1200).  Population sizes fed *)
(* to the growth closures are powers of two, so that exp(log(nu)*t/Te),    *)
(* which is nu^(t/Te), is computed exactly wherever the exponent is whole. *)
(***************************************************************************)
EXTENDS Integers, Sequences, FiniteSets, TLC

VARIABLES
    func,     \* name of the model function being evaluated
    pv,       \* its first argument, the parameter vector `params`
    pc,       \* position in the function: 0 before the unpacking, i >= 1
              \* before the i-th dadi call, one more before the return
    status,   \* "running", "returned" or "raised"
    xx,       \* the grid (0 while unset, else the number of points)
    phi,      \* the density bound to `phi`: [src, val]
    calls,    \* the dadi calls issued so far, oldest first
    fs,       \* the returned spectrum
    spc,      \* position in the fitting script
    p0,       \* the script's p0
    fit,      \* the arguments optimize_log was started with
    popt,     \* the optimizer's result
    model,    \* the best-fit model spectrum
    ll_opt,   \* its log-likelihood
    AIC       \* the reported information criterion

vars == <<func, pv, pc, status, xx, phi, calls, fs, spc, p0, fit, popt, model, ll_opt, AIC>>
fvars == <<func, pv, pc, status, xx, phi, calls, fs>>
svars == <<spc, p0, fit, popt, model, ll_opt, AIC>>

---------------------------------------------------------------------------
(* Bounds of the model *)

\* durations are 0..MaxT (whole time units)
MaxT == 1
\* parameter vectors of the wrong length have 0..MaxLen entries
MaxLen == 10
\* the random factors of perturb_params are FactorGrid+1 points of [1/2, 2]
FactorGrid == 1
\* log-likelihoods returned by the engine are -MaxLL..0
MaxLL == 2

---------------------------------------------------------------------------
(* Numbers *)

Range(s) == {s[i] : i \in DOMAIN s}

RECURSIVE Pow2(_)
Pow2(n) == IF n = 0 THEN 1 ELSE 2 * Pow2(n - 1)

\* 2^k in hundredths, exact for k >= -2
Exp2(k) == IF k >= 0 THEN 100 * Pow2(k) ELSE 100 \div Pow2(0 - k)

\* the base-2 logarithm of a power of two given in hundredths
Log2(v) == CHOOSE k \in -2..12 : Exp2(k) = v

\* results of floating-point expressions: a number, or NaN / inf
Num(v) == [kind |-> "num", v |-> v]
NaN == [kind |-> "nan", v |-> 0]
Inf == [kind |-> "inf", v |-> 0]

\* lambda t: numpy.exp(numpy.log(nu) * t/Te), numpy float semantics:
\* x/0 is nan for x = 0 and +-inf otherwise, exp(nan) = nan, exp(-inf) = 0.
\* exp(log(nu)*r) = 2^(log2(nu)*r); evaluated where log2(nu)*t/Te is whole.
nu_func(nu, Te, t) ==
    IF Te = 0
    THEN IF Log2(nu) * t = 0 THEN NaN
         ELSE IF Log2(nu) * t > 0 THEN Inf ELSE Num(0)
    ELSE Num(Exp2((Log2(nu) * t) \div Te))

\* the times of [0, Te] at which nu_func is computed exactly
SampleTimes(nu, Te) ==
    IF Te = 0 THEN {0}
    ELSE {t \in 0..Te : (Log2(nu) * t) % Te = 0}

\* a size argument of two_pops: a scalar, or a closure over (nu, Te)
Scalar(nu) == [kind |-> "scalar", nu |-> nu, Te |-> 0]
Closure(nu, Te) == [kind |-> "func", nu |-> nu, Te |-> Te]

\* the size the engine reads from a size argument at time t
SizeAt(arg, t) ==
    IF arg.kind = "scalar" THEN Num(arg.nu) ELSE nu_func(arg.nu, arg.Te, t)

---------------------------------------------------------------------------
(* The model functions of demographic_models.py *)

Models == {"SI", "SIex", "SIbo", "IM", "IMex", "SC", "SCex", "AM", "AMex",
           "PSC", "PSCex", "PAM", "PAMex"}

\* the names each function unpacks `params` into, in order (its first line)
ParamNames(f) ==
    CASE f = "SI"    -> <<"nu1", "nu2", "Ts">>
      [] f = "SIex"  -> <<"nu1a", "nu2a", "nu1", "nu2", "Ts", "Te">>
      [] f = "SIbo"  -> <<"nu1a", "nu2a", "nu1B", "nu2B", "nu1", "nu2",
                          "Ts", "TB", "Te">>
      [] f = "IM"    -> <<"nu1", "nu2", "m12", "m21", "Ts">>
      [] f = "IMex"  -> <<"nu1a", "nu2a", "nu1", "nu2", "m12", "m21",
                          "Ts", "Te">>
      [] f = "SC"    -> <<"nu1", "nu2", "m12", "m21", "Ts", "Tsc">>
      [] f = "SCex"  -> <<"nu1a", "nu2a", "nu1", "nu2", "m12", "m21",
                          "Ts", "Tsc", "Te">>
      [] f = "AM"    -> <<"nu1", "nu2", "m12", "m21", "Tam", "Ts">>
      [] f = "AMex"  -> <<"nu1a", "nu2a", "nu1", "nu2", "m12", "m21",
                          "Tam", "Ts", "Te">>
      [] f = "PSC"   -> <<"nu1", "nu2", "m12", "m21", "Ts", "Tsc">>
      [] f = "PSCex" -> <<"nu1a", "nu2a", "nu1", "nu2", "m12", "m21",
                          "Ts", "Tsc", "Te">>
      [] f = "PAM"   -> <<"nu1", "nu2", "m12", "m21", "Tam", "Ts">>
      [] f = "PAMex" -> <<"nu1a", "nu2a", "nu1", "nu2", "m12", "m21",
                          "Tam", "Ts", "Te">>

\* a tuple assignment with fewer or more values than names (a, b = params
\* with the wrong length) raises ValueError
UnpackFails_indexing(f, p) == Len(p) < Len(ParamNames(f))
UnpackFails(f, p) == Len(p) # Len(ParamNames(f))

\* the local variables after the unpacking
Unpack(f, p) ==
    [n \in Range(ParamNames(f)) |->
        p[CHOOSE i \in DOMAIN ParamNames(f) : ParamNames(f)[i] = n]]

\* the dadi calls of a function body, as statements
Stmt(op) == [op |-> op, T |-> 0, nu1 |-> Scalar(0), nu2 |-> Scalar(0),
             m12 |-> 0, m21 |-> 0]
default_grid == Stmt("default_grid")
phi_1D == Stmt("phi_1D")
phi_1D_to_2D == Stmt("phi_1D_to_2D")
from_phi == Stmt("from_phi")
two_pops(T, nu1, nu2, m12, m21) ==
    [op |-> "two_pops", T |-> T, nu1 |-> nu1, nu2 |-> nu2,
     m12 |-> m12, m21 |-> m21]

SI(v) ==
    << default_grid, phi_1D, phi_1D_to_2D,
       two_pops(v.Ts, Scalar(v.nu1), Scalar(v.nu2), 0, 0),
       from_phi >>

SIex(v) ==
    << default_grid, phi_1D, phi_1D_to_2D,
       two_pops(v.Ts, Scalar(v.nu1a), Scalar(v.nu2a), 0, 0),
       two_pops(v.Te, Closure(v.nu1, v.Te), Closure(v.nu2, v.Te), 0, 0),
       from_phi >>

SIbo(v) ==
    << default_grid, phi_1D, phi_1D_to_2D,
       two_pops(v.Ts, Scalar(v.nu1a), Scalar(v.nu2a), 0, 0),
       two_pops(v.TB, Scalar(v.nu1B), Scalar(v.nu2B), 0, 0),
       two_pops(v.Te, Closure(v.nu1, v.Te), Closure(v.nu2, v.Te), 0, 0),
       from_phi >>

IM(v) ==
    << default_grid, phi_1D, phi_1D_to_2D,
       two_pops(v.Ts, Scalar(v.nu1), Scalar(v.nu2), v.m12, v.m21),
       from_phi >>

IMex(v) ==
    << default_grid, phi_1D, phi_1D_to_2D,
       two_pops(v.Ts, Scalar(v.nu1a), Scalar(v.nu2a), v.m12, v.m21),
       two_pops(v.Te, Closure(v.nu1, v.Te), Closure(v.nu2, v.Te),
                v.m12, v.m21),
       from_phi >>

SC(v) ==
    << default_grid, phi_1D, phi_1D_to_2D,
       two_pops(v.Ts, Scalar(v.nu1), Scalar(v.nu2), 0, 0),
       two_pops(v.Tsc, Scalar(v.nu1), Scalar(v.nu2), v.m12, v.m21),
       from_phi >>

SCex(v) ==
    << default_grid, phi_1D, phi_1D_to_2D,
       two_pops(v.Ts, Scalar(v.nu1a), Scalar(v.nu2a), 0, 0),
       two_pops(v.Tsc, Scalar(v.nu1a), Scalar(v.nu2a), v.m12, v.m21),
       two_pops(v.Te, Closure(v.nu1, v.Te), Closure(v.nu2, v.Te),
                v.m12, v.m21),
       from_phi >>

AM(v) ==
    << default_grid, phi_1D, phi_1D_to_2D,
       two_pops(v.Tam, Scalar(v.nu1), Scalar(v.nu2), v.m12, v.m21),
       two_pops(v.Ts, Scalar(v.nu1), Scalar(v.nu2), 0, 0),
       from_phi >>

AMex_mig(v) ==
    << default_grid, phi_1D, phi_1D_to_2D,
       two_pops(v.Tam, Scalar(v.nu1a), Scalar(v.nu2a), v.m12, v.m21),
       two_pops(v.Ts, Scalar(v.nu1a), Scalar(v.nu2a), 0, 0),
       two_pops(v.Te, Closure(v.nu1, v.Te), Closure(v.nu2, v.Te),
                v.m12, v.m21),
       from_phi >>
AMex(v) ==
    << default_grid, phi_1D, phi_1D_to_2D,
       two_pops(v.Tam, Scalar(v.nu1a), Scalar(v.nu2a), v.m12, v.m21),
       two_pops(v.Ts, Scalar(v.nu1a), Scalar(v.nu2a), 0, 0),
       two_pops(v.Te, Closure(v.nu1, v.Te), Closure(v.nu2, v.Te), 0, 0),
       from_phi >>

PSC_once(v) ==
    << default_grid, phi_1D, phi_1D_to_2D,
       two_pops(v.Ts, Scalar(v.nu1), Scalar(v.nu2), 0, 0),
       two_pops(v.Tsc, Scalar(v.nu1), Scalar(v.nu2), v.m12, v.m21),
       from_phi >>
PSC(v) ==
    << default_grid, phi_1D, phi_1D_to_2D,
       two_pops(v.Ts, Scalar(v.nu1), Scalar(v.nu2), 0, 0),
       two_pops(v.Tsc, Scalar(v.nu1), Scalar(v.nu2), v.m12, v.m21),
       two_pops(v.Ts, Scalar(v.nu1), Scalar(v.nu2), 0, 0),
       two_pops(v.Tsc, Scalar(v.nu1), Scalar(v.nu2), v.m12, v.m21),
       from_phi >>

PSCex(v) ==
    << default_grid, phi_1D, phi_1D_to_2D,
       two_pops(v.Ts, Scalar(v.nu1a), Scalar(v.nu2a), 0, 0),
       two_pops(v.Tsc, Scalar(v.nu1a), Scalar(v.nu2a), v.m12, v.m21),
       two_pops(v.Ts, Scalar(v.nu1a), Scalar(v.nu2a), 0, 0),
       two_pops(v.Tsc, Scalar(v.nu1a), Scalar(v.nu2a), v.m12, v.m21),
       two_pops(v.Te, Closure(v.nu1, v.Te), Closure(v.nu2, v.Te),
                v.m12, v.m21),
       from_phi >>

PAM(v) ==
    << default_grid, phi_1D, phi_1D_to_2D,
       two_pops(v.Tam, Scalar(v.nu1), Scalar(v.nu2), v.m12, v.m21),
       two_pops(v.Ts, Scalar(v.nu1), Scalar(v.nu2), 0, 0),
       two_pops(v.Tam, Scalar(v.nu1), Scalar(v.nu2), v.m12, v.m21),
       two_pops(v.Ts, Scalar(v.nu1), Scalar(v.nu2), 0, 0),
       from_phi >>

PAMex_dropped(v) ==
    << default_grid, phi_1D, phi_1D_to_2D,
       two_pops(v.Tam, Scalar(v.nu1a), Scalar(v.nu2a), v.m12, v.m21),
       two_pops(v.Ts, Scalar(v.nu1a), Scalar(v.nu2a), 0, 0),
       two_pops(v.Tam, Scalar(v.nu1a), Scalar(v.nu2a), v.m12, v.m21),
       two_pops(v.Te, Closure(v.nu1, v.Te), Closure(v.nu2, v.Te), 0, 0),
       from_phi >>
PAMex(v) ==
    << default_grid, phi_1D, phi_1D_to_2D,
       two_pops(v.Tam, Scalar(v.nu1a), Scalar(v.nu2a), v.m12, v.m21),
       two_pops(v.Ts, Scalar(v.nu1a), Scalar(v.nu2a), 0, 0),
       two_pops(v.Tam, Scalar(v.nu1a), Scalar(v.nu2a), v.m12, v.m21),
       two_pops(v.Ts, Scalar(v.nu1a), Scalar(v.nu2a), 0, 0),
       two_pops(v.Te, Closure(v.nu1, v.Te), Closure(v.nu2, v.Te), 0, 0),
       from_phi >>

\* the statements of function f after its unpacking
Body(f, v) ==
    CASE f = "SI"    -> SI(v)
      [] f = "SIex"  -> SIex(v)
      [] f = "SIbo"  -> SIbo(v)
      [] f = "IM"    -> IM(v)
      [] f = "IMex"  -> IMex(v)
      [] f = "SC"    -> SC(v)
      [] f = "SCex"  -> SCex(v)
      [] f = "AM"    -> AM(v)
      [] f = "AMex"  -> AMex(v)
      [] f = "PSC"   -> PSC(v)
      [] f = "PSCex" -> PSCex(v)
      [] f = "PAM"   -> PAM(v)
      [] f = "PAMex" -> PAMex(v)

---------------------------------------------------------------------------
(* The constants of the fitting script JPA_JTR_PAMex_folded.py *)

\* data.sample_sizes, the projection sizes given to from_data_dict
ns == <<49, 41>>

pts_l == <<60, 50>>

\* func = demographic_models.PAMex
script_func == "PAMex"

upper_bound == <<10000, 10000, 10000, 10000, 2000, 2000, 1200, 1200, 1200>>
lower_bound_above == <<20000, 1, 1, 1, 0, 0, 0, 0, 0>>
lower_bound == <<1, 1, 1, 1, 0, 0, 0, 0, 0>>

params_swapped ==
    <<"nu1a", "nu2a", "nu1", "nu2", "m12", "m21", "Ts", "Tam", "Te">>
params == <<"nu1a", "nu2a", "nu1", "nu2", "m12", "m21", "Tam", "Ts", "Te">>
p0_guess == <<100, 100, 100, 100, 100, 100, 100, 100, 100>>

---------------------------------------------------------------------------
(* The numerical engine (dadi), by its interface *)

NoDensity == [dims |-> 0, grid |-> 0, hist |-> <<>>]
NoSpectrum == [from |-> NoDensity, ns |-> <<>>, grid |-> 0]

\* phi_1D: the equilibrium density of the ancestral population
initializeDensity(grid) == [dims |-> 1, grid |-> grid, hist |-> <<>>]

\* phi_1D_to_2D: the joint density of the two daughter populations
split(d) == [d EXCEPT !.dims = 2]

\* two_pops: the density after one epoch; an epoch of duration 0 returns
\* its input unchanged
advance(d, e) == IF e.T = 0 THEN d ELSE [d EXCEPT !.hist = Append(@, e)]

\* from_phi: the spectrum of a density at the given sample sizes
project(d, n, grid) == [from |-> d, ns |-> n, grid |-> grid]

---------------------------------------------------------------------------
(* One evaluation of a model function *)

\* one shrinking and one growing size: 1/2 and 4
Sizes == {Exp2(0 - 1), Exp2(2)}
Migs == {0, 100}
Durations == {100 * d : d \in 0..MaxT}

\* the values a parameter of the given name is drawn from
Dom(name) ==
    IF name \in {"m12", "m21"} THEN Migs
    ELSE IF name \in {"Ts", "Tsc", "Tam", "TB", "Te"} THEN Durations
    ELSE Sizes

RECURSIVE Vectors(_)
Vectors(names) ==
    IF names = <<>> THEN {<<>>}
    ELSE {<<x>> \o r : x \in Dom(Head(names)), r \in Vectors(Tail(names))}

\* vectors of another length than the one f unpacks
WrongVectors(f) ==
    {[i \in 1..n |-> 100] : n \in (0..MaxLen) \ {Len(ParamNames(f))}}

NoPhi == [src |-> 0, val |-> NoDensity]

\* what the script's variables hold before they are assigned
NoFit == [p0 |-> <<>>, ns |-> <<>>, pts_l |-> <<>>,
          lower_bound |-> <<>>, upper_bound |-> <<>>]
NoModel == [func |-> "", params |-> <<>>, ns |-> <<>>, pts_l |-> <<>>]
NoLL == [of |-> NoModel, v |-> 0]

ScriptIdle ==
    /\ spc = "idle"
    /\ p0 = <<>>
    /\ fit = NoFit
    /\ popt = <<>>
    /\ model = NoModel
    /\ ll_opt = NoLL
    /\ AIC = 0

Init ==
    /\ func \in Models
    /\ pv \in Vectors(ParamNames(func)) \cup WrongVectors(func)
    /\ pc = 0
    /\ status = "running"
    /\ xx = 0
    /\ phi = NoPhi
    /\ calls = <<>>
    /\ fs = NoSpectrum
    /\ ScriptIdle

\* the statement at pc
Cur == Body(func, Unpack(func, pv))[pc]
AtStmt(op) ==
    /\ status = "running"
    /\ pc >= 1
    /\ pc <= Len(Body(func, Unpack(func, pv)))
    /\ Cur.op = op

\* a call as logged: the statement, the call that produced the density it is
\* given (0 when it takes none) and the density it returns
Logged(stmt, arg, out) == [stmt |-> stmt, arg |-> arg, out |-> out]

\* nu1, nu2, ... = params
UnpackParams ==
    /\ status = "running"
    /\ pc = 0
    /\ IF UnpackFails(func, pv)
       THEN status' = "raised" /\ pc' = pc
       ELSE status' = status /\ pc' = 1
    /\ UNCHANGED <<func, pv, xx, phi, calls, fs>>
    /\ UNCHANGED svars

\* xx = dadi.Numerics.default_grid(pts)
CallDefaultGrid ==
    /\ AtStmt("default_grid")
    /\ xx' = pts_l[1]
    /\ calls' = Append(calls, Logged(Cur, 0, NoDensity))
    /\ pc' = pc + 1
    /\ UNCHANGED <<func, pv, status, phi, fs>>
    /\ UNCHANGED svars

\* phi = dadi.PhiManip.phi_1D(xx)
CallPhi1D ==
    /\ AtStmt("phi_1D")
    /\ phi' = [src |-> Len(calls) + 1, val |-> initializeDensity(xx)]
    /\ calls' = Append(calls, Logged(Cur, 0, initializeDensity(xx)))
    /\ pc' = pc + 1
    /\ UNCHANGED <<func, pv, status, xx, fs>>
    /\ UNCHANGED svars

\* phi = dadi.PhiManip.phi_1D_to_2D(xx, phi)
CallPhi1DTo2D ==
    /\ AtStmt("phi_1D_to_2D")
    /\ phi' = [src |-> Len(calls) + 1, val |-> split(phi.val)]
    /\ calls' = Append(calls, Logged(Cur, phi.src, split(phi.val)))
    /\ pc' = pc + 1
    /\ UNCHANGED <<func, pv, status, xx, fs>>
    /\ UNCHANGED svars

\* phi = dadi.Integration.two_pops(phi, xx, T, nu1, nu2, m12=.., m21=..)
CallTwoPops ==
    /\ AtStmt("two_pops")
    /\ phi' = [src |-> Len(calls) + 1, val |-> advance(phi.val, Cur)]
    /\ calls' = Append(calls, Logged(Cur, phi.src, advance(phi.val, Cur)))
    /\ pc' = pc + 1
    /\ UNCHANGED <<func, pv, status, xx, fs>>
    /\ UNCHANGED svars

\* fs = dadi.Spectrum.from_phi(phi, (n1,n2), (xx,xx))
CallFromPhi ==
    /\ AtStmt("from_phi")
    /\ fs' = project(phi.val, ns, xx)
    /\ calls' = Append(calls, Logged(Cur, phi.src, NoDensity))
    /\ pc' = pc + 1
    /\ UNCHANGED <<func, pv, status, xx, phi>>
    /\ UNCHANGED svars

\* return fs
Return ==
    /\ status = "running"
    /\ pc >= 1
    /\ pc = Len(Body(func, Unpack(func, pv))) + 1
    /\ status' = "returned"
    /\ UNCHANGED <<func, pv, pc, xx, phi, calls, fs>>
    /\ UNCHANGED svars

Next ==
    \/ UnpackParams
    \/ CallDefaultGrid
    \/ CallPhi1D
    \/ CallPhi1DTo2D
    \/ CallTwoPops
    \/ CallFromPhi
    \/ Return

Spec == Init /\ [][Next]_vars

---------------------------------------------------------------------------
(* Properties of one evaluation *)

\* the local variables of the running function
Env == Unpack(func, pv)

\* the epochs each model declares (docstrings), by the name of the duration
DeclaredEpochs(f) ==
    CASE f = "SI"    -> <<"Ts">>
      [] f = "SIex"  -> <<"Ts", "Te">>
      [] f = "SIbo"  -> <<"Ts", "TB", "Te">>
      [] f = "IM"    -> <<"Ts">>
      [] f = "IMex"  -> <<"Ts", "Te">>
      [] f = "SC"    -> <<"Ts", "Tsc">>
      [] f = "SCex"  -> <<"Ts", "Tsc", "Te">>
      [] f = "AM"    -> <<"Tam", "Ts">>
      [] f = "AMex"  -> <<"Tam", "Ts", "Te">>
      [] f = "PSC"   -> <<"Ts", "Tsc", "Ts", "Tsc">>
      [] f = "PSCex" -> <<"Ts", "Tsc", "Ts", "Tsc", "Te">>
      [] f = "PAM"   -> <<"Tam", "Ts", "Tam", "Ts">>
      [] f = "PAMex" -> <<"Tam", "Ts", "Tam", "Ts", "Te">>

\* the parameter count each model declares
DeclaredCount(f) ==
    CASE f = "SI" -> 3
      [] f = "IM" -> 5
      [] f \in {"SIex", "SC", "AM", "PSC", "PAM"} -> 6
      [] f = "IMex" -> 8
      [] f \in {"SIbo", "SCex", "AMex", "PSCex", "PAMex"} -> 9

\* the calls that make or take a density (all but the grid construction)
DensityCalls == SelectSeq(calls, LAMBDA c : c.stmt.op # "default_grid")

\* the order of density calls an evaluation of f must follow
ExpectedOps(f) ==
    <<"phi_1D", "phi_1D_to_2D">>
        \o [i \in 1..Len(DeclaredEpochs(f)) |-> "two_pops"]
        \o <<"from_phi">>

\* call i of the log takes the density returned by call i-1
TakesPrevious(i) == calls[i].arg = i - 1 /\ i > 1

\* C1: every evaluation issues its density calls in the order initial
\* density, split, one advance per declared epoch (in the declared order),
\* one projection; every advance takes the density returned by the call
\* just before it, and nothing is called after the projection.
C1_CallOrder ==
    LET d == DensityCalls
        e == ExpectedOps(func)
    IN  /\ Len(d) <= Len(e)
        /\ \A i \in 1..Len(d) : d[i].stmt.op = e[i]
        /\ \A i \in 1..Len(calls) :
              calls[i].stmt.op = "two_pops" => TakesPrevious(i)
        /\ \A i \in 1..Len(d) :
              d[i].stmt.op = "two_pops" =>
                  d[i].stmt.T = Env[DeclaredEpochs(func)[i - 2]]
        /\ status = "returned" => Len(d) = Len(e)

C1_Witness ==
    /\ status = "returned"
    /\ func = "PAMex"
    /\ Len(DensityCalls) = 8
    /\ calls[Len(calls)].stmt.op = "from_phi"

\* C7: a vector of another length than the model declares makes the
\* function fail before any dadi call (grid, initial density, split,
\* advance or projection) is issued.
C7_WrongLengthFailsFirst ==
    Len(pv) # DeclaredCount(func) =>
        /\ calls = <<>>
        /\ xx = 0
        /\ pc = 0
        /\ status \in {"running", "raised"}

C7_Witness ==
    /\ Len(pv) = DeclaredCount(func) + 1
    /\ status = "raised"
    /\ calls = <<>>

\* the advance calls issued so far
Advances == SelectSeq(calls, LAMBDA c : c.stmt.op = "two_pops")

\* the last call issued
LastCall == calls[Len(calls)]
JustAdvanced == calls # <<>> /\ LastCall.stmt.op = "two_pops"

\* an epoch of isolation / of migration at the model's rates
Iso(T) == [T |-> T, m12 |-> 0, m21 |-> 0]
Mig(T) == [T |-> T, m12 |-> Env.m12, m21 |-> Env.m21]
Regime(c) == [T |-> c.stmt.T, m12 |-> c.stmt.m12, m21 |-> c.stmt.m21]

Periodic == {"PSC", "PSCex", "PAM", "PAMex"}
RepeatedPattern(f) ==
    IF f \in {"PSC", "PSCex"}
    THEN <<Iso(Env.Ts), Mig(Env.Tsc), Iso(Env.Ts), Mig(Env.Tsc)>>
    ELSE <<Mig(Env.Tam), Iso(Env.Ts), Mig(Env.Tam), Iso(Env.Ts)>>

\* C8: PSC and PAM issue exactly 4 advance calls, isolation(Ts),
\* migration(Tsc) twice over, resp. migration(Tam), isolation(Ts) twice
\* over; PSCex and PAMex add a fifth growth call; the second occurrence of a
\* regime takes the density returned by the call just before it, which is
\* neither what the first occurrence took nor what it returned.
C8_RepeatedRegimes ==
    (status = "returned" /\ func \in Periodic) =>
        LET a == Advances
            ex == func \in {"PSCex", "PAMex"}
        IN  /\ Len(a) = IF ex THEN 5 ELSE 4
            /\ \A i \in 1..4 :
                  /\ Regime(a[i]) = RepeatedPattern(func)[i]
                  /\ a[i].stmt.nu1.kind = "scalar"
                  /\ a[i].stmt.nu2.kind = "scalar"
            /\ ex => /\ a[5].stmt.T = Env.Te
                     /\ a[5].stmt.nu1.kind = "func"
                     /\ a[5].stmt.nu2.kind = "func"
            /\ \A j \in 1..Len(calls) :
                  (calls[j].stmt.op = "two_pops" /\ j >= 6) =>
                      /\ calls[j].arg = j - 1
                      /\ calls[j].arg # calls[j - 2].arg
                      /\ calls[j].arg # j - 2
            /\ (a[1].stmt.T > 0 /\ a[2].stmt.T > 0) =>
                  /\ calls[a[3].arg].out # calls[a[1].arg].out
                  /\ calls[a[3].arg].out # a[1].out
                  /\ calls[a[4].arg].out # calls[a[2].arg].out
                  /\ calls[a[4].arg].out # a[2].out

C8_Witness ==
    /\ status = "returned"
    /\ func = "PAM"
    /\ Len(Advances) = 4
    /\ Env.Tam > 0 /\ Env.Ts > 0 /\ Env.m12 > 0

\* the size of a population is monotonic over the sampled times of [0, T]
Monotonic(arg, T) ==
    \A t1, t2 \in SampleTimes(arg.nu, T) :
        t1 <= t2 =>
            /\ SizeAt(arg, 0).v <= SizeAt(arg, T).v
                  => SizeAt(arg, t1).v <= SizeAt(arg, t2).v
            /\ SizeAt(arg, 0).v >= SizeAt(arg, T).v
                  => SizeAt(arg, t1).v >= SizeAt(arg, t2).v

\* C2 (as claimed; growth epochs of positive duration, the zero duration
\* being C3's): in the growth epoch each population's size starts at its
\* size in the preceding epoch, ends at nu1 / nu2, and is monotonic between.
C2_GrowthEndpoints ==
    (JustAdvanced /\ LastCall.stmt.nu1.kind = "func" /\ LastCall.stmt.T > 0) =>
        LET c == LastCall.stmt
            prev == calls[Len(calls) - 1].stmt
        IN  /\ SizeAt(c.nu1, 0) = Num(prev.nu1.nu)
            /\ SizeAt(c.nu2, 0) = Num(prev.nu2.nu)
            /\ SizeAt(c.nu1, c.T) = Num(Env.nu1)
            /\ SizeAt(c.nu2, c.T) = Num(Env.nu2)
            /\ Monotonic(c.nu1, c.T)
            /\ Monotonic(c.nu2, c.T)

\* C3 (as claimed): an epoch of duration 0 is handed to the engine with
\* sizes that are defined at t = 0, leaves the density as it was, and
\* raises nothing; the growth epoch included.
C3_ZeroDurationNoOp ==
    (JustAdvanced /\ LastCall.stmt.T = 0) =>
        /\ SizeAt(LastCall.stmt.nu1, 0).kind = "num"
        /\ SizeAt(LastCall.stmt.nu2, 0).kind = "num"
        /\ LastCall.out = calls[LastCall.arg].out
        /\ status # "raised"

\* the vector lies inside the script's bounds
InBounds(p) ==
    /\ Len(p) = Len(lower_bound)
    /\ \A i \in DOMAIN p : lower_bound[i] <= p[i] /\ p[i] <= upper_bound[i]

\* the times at which a size argument is read over an epoch of duration T
Times(arg, T) ==
    IF arg.kind = "func" THEN SampleTimes(arg.nu, T) ELSE {0, T}

PositiveOn(arg, T) ==
    \A t \in Times(arg, T) :
        SizeAt(arg, t).kind = "num" /\ SizeAt(arg, t).v > 0

\* C9 (as claimed): with the parameters inside the script's bounds, every
\* epoch PAMex hands to the engine has a duration >= 0 and sizes that are
\* defined and > 0 at every time of [0, duration].
C9_EpochsWellFormed ==
    (func = script_func /\ InBounds(pv) /\ JustAdvanced) =>
        /\ LastCall.stmt.T >= 0
        /\ PositiveOn(LastCall.stmt.nu1, LastCall.stmt.T)
        /\ PositiveOn(LastCall.stmt.nu2, LastCall.stmt.T)

---------------------------------------------------------------------------
(* The fitting script *)

\* the whole of one model function: unpacking, dadi calls, returned spectrum
RECURSIVE Integrate(_, _, _)
Integrate(stmts, d, grid) ==
    IF stmts = <<>> THEN d
    ELSE LET st == Head(stmts)
             d2 == CASE st.op = "phi_1D" -> initializeDensity(grid)
                     [] st.op = "phi_1D_to_2D" -> split(d)
                     [] st.op = "two_pops" -> advance(d, st)
                     [] OTHER -> d
         IN  Integrate(Tail(stmts), d2, grid)

Evaluate(f, p, n, grid) ==
    IF UnpackFails(f, p) THEN NoSpectrum
    ELSE project(Integrate(Body(f, Unpack(f, p)), NoDensity, grid), n, grid)

\* func_ex = dadi.Numerics.make_extrap_log_func(func): the spectrum
\* extrapolated from one evaluation of func per grid size of the list
func_ex(p, n, ptsl) ==
    [func |-> script_func, params |-> p, ns |-> n, pts_l |-> ptsl]
Parts(m) ==
    [i \in DOMAIN m.pts_l |-> Evaluate(m.func, m.params, m.ns, m.pts_l[i])]

Clamp(x, lo, hi) == IF x < lo THEN lo ELSE IF x > hi THEN hi ELSE x

\* the random factors, points of [2^-fold, 2^fold]
Factors(fold) ==
    {Exp2(0 - fold) + ((Exp2(fold) - Exp2(0 - fold)) * j) \div FactorGrid :
        j \in 0..FactorGrid}

\* dadi.Misc.perturb_params: each entry times its factor, clamped to bounds
InvalidBounds(lo, hi) ==
    \/ Len(lo) # Len(hi)
    \/ \E i \in DOMAIN lo : lo[i] > hi[i]
perturb_params(p, u, lo, hi) ==
    [i \in DOMAIN p |-> Clamp((p[i] * u[i]) \div 100, lo[i], hi[i])]

\* the vector lies inside the given bounds
Within(p, lo, hi) ==
    /\ Len(p) = Len(lo) /\ Len(p) = Len(hi)
    /\ \A i \in DOMAIN p : lo[i] <= p[i] /\ p[i] <= hi[i]

\* dadi.Inference.optimize_log: some vector of the search region
Candidates(p, lo, hi) ==
    {p, [i \in DOMAIN p |-> Clamp(p[i] \div 2, lo[i], hi[i])]}

\* dadi.Inference.ll_multinom: log-likelihoods are whole numbers <= 0 here
LogLikelihoods == (0 - MaxLL)..0

\* AIC = 2*len(params)-2*ll_opt
AIC_with_theta(k, ll) == 2 * (k + 1) - 2 * ll
AIC_of(k, ll) == 2 * k - 2 * ll

ScriptInit ==
    /\ func = script_func
    /\ pv = <<>>
    /\ pc = 0
    /\ status = "idle"
    /\ xx = 0
    /\ phi = NoPhi
    /\ calls = <<>>
    /\ fs = NoSpectrum
    /\ spc = "start"
    /\ p0 = p0_guess
    /\ fit = NoFit
    /\ popt = <<>>
    /\ model = NoModel
    /\ ll_opt = NoLL
    /\ AIC = 0

\* p0 = dadi.Misc.perturb_params(p0, fold=1, upper_bound=upper_bound,
\*                               lower_bound=lower_bound)
Perturb ==
    /\ spc = "start"
    /\ IF InvalidBounds(lower_bound, upper_bound)
       THEN spc' = "raised" /\ p0' = p0
       ELSE /\ spc' = "perturbed"
            /\ \E u \in [DOMAIN p0 -> Factors(1)] :
                  p0' = perturb_params(p0, u, lower_bound, upper_bound)
    /\ UNCHANGED <<fit, popt, model, ll_opt, AIC>>
    /\ UNCHANGED fvars

\* popt = dadi.Inference.optimize_log(p0, data, func_ex, pts_l,
\*            lower_bound=lower_bound, upper_bound=upper_bound, ...)
Optimize ==
    /\ spc = "perturbed"
    /\ fit' = [p0 |-> p0, ns |-> ns, pts_l |-> pts_l,
               lower_bound |-> lower_bound, upper_bound |-> upper_bound]
    /\ IF ~ Within(p0, lower_bound, upper_bound)
       THEN spc' = "raised" /\ popt' = popt
       ELSE /\ spc' = "optimized"
            /\ popt' \in Candidates(p0, lower_bound, upper_bound)
    /\ UNCHANGED <<p0, model, ll_opt, AIC>>
    /\ UNCHANGED fvars

\* model = func_ex(popt, ns, pts_l)
BestFit ==
    /\ spc = "optimized"
    /\ model' = func_ex(popt, ns, pts_l)
    /\ spc' = "evaluated"
    /\ UNCHANGED <<p0, fit, popt, ll_opt, AIC>>
    /\ UNCHANGED fvars

\* ll_opt = dadi.Inference.ll_multinom(model, data)
Score ==
    /\ spc = "evaluated"
    /\ \E ll \in LogLikelihoods : ll_opt' = [of |-> model, v |-> ll]
    /\ spc' = "scored"
    /\ UNCHANGED <<p0, fit, popt, model, AIC>>
    /\ UNCHANGED fvars

\* AIC = 2*len(params)-2*ll_opt, then the results are printed
Report ==
    /\ spc = "scored"
    /\ AIC' = AIC_of(Len(params), ll_opt.v)
    /\ spc' = "done"
    /\ UNCHANGED <<p0, fit, popt, model, ll_opt>>
    /\ UNCHANGED fvars

ScriptNext ==
    \/ Perturb
    \/ Optimize
    \/ BestFit
    \/ Score
    \/ Report

ScriptSpec == ScriptInit /\ [][ScriptNext]_vars

---------------------------------------------------------------------------
(* Properties of the fitting script *)

Started == spc \in {"optimized", "evaluated", "scored", "done"}
Perturbed == spc \in {"perturbed"} \/ Started

StrictlyIncreasing(l) == \A i \in 1..(Len(l) - 1) : l[i] < l[i + 1]

\* C4 (as claimed): the grid list given to the optimizer and to the final
\* evaluation of the extrapolated model has at least 2 grid sizes, in
\* strictly increasing order.
C4_GridListIncreasing ==
    /\ Started =>
          Len(fit.pts_l) >= 2 /\ StrictlyIncreasing(fit.pts_l)
    /\ spc \in {"evaluated", "scored", "done"} =>
          Len(model.pts_l) >= 2 /\ StrictlyIncreasing(model.pts_l)

\* C5: whatever the random draw, the perturbation yields a starting vector,
\* every entry of which lies within the script's bounds, and the optimizer
\* is only ever started from such a vector.
C5_StartWithinBounds ==
    /\ spc # "raised"
    /\ Perturbed => Within(p0, lower_bound, upper_bound)
    /\ Started => /\ fit.p0 = p0
                  /\ Within(fit.p0, fit.lower_bound, fit.upper_bound)

C5_Witness ==
    /\ spc = "optimized"
    /\ p0[1] = 50 /\ p0[9] = 200
    /\ fit.p0 = p0

\* C6: lower_bound, upper_bound, p0 and params have the length of the
\* vector PAMex unpacks (9), params lists the names in the order of that
\* unpacking, and lower_bound[i] <= upper_bound[i] at every index.
C6_VectorsAligned ==
    /\ Len(lower_bound) = DeclaredCount(script_func)
    /\ Len(upper_bound) = DeclaredCount(script_func)
    /\ Len(p0) = DeclaredCount(script_func)
    /\ Len(params) = DeclaredCount(script_func)
    /\ DeclaredCount(script_func) = 9
    /\ params = ParamNames(script_func)
    /\ params = <<"nu1a", "nu2a", "nu1", "nu2", "m12", "m21",
                  "Tam", "Ts", "Te">>
    /\ \A i \in DOMAIN lower_bound : lower_bound[i] <= upper_bound[i]
    /\ Started => /\ Len(fit.lower_bound) = Len(fit.p0)
                  /\ Len(fit.upper_bound) = Len(fit.p0)
                  /\ ~ UnpackFails(script_func, fit.p0)

C6_Witness ==
    /\ spc = "optimized"
    /\ p0 # p0_guess
    /\ fit.lower_bound = lower_bound
    /\ fit.upper_bound = upper_bound

\* C10: the reported criterion is 2*k - 2*logLikelihood with k the number
\* of parameters PAMex unpacks (theta not counted) and logLikelihood that of
\* the extrapolated spectrum at the optimizer's result, for the sample sizes
\* and the grid list of the fit; for a fixed logLikelihood it grows with k.
C10_AIC ==
    spc = "done" =>
        /\ AIC = 2 * Len(ParamNames(script_func)) - 2 * ll_opt.v
        /\ ll_opt.of = model
        /\ model.func = script_func
        /\ model.params = popt
        /\ model.ns = fit.ns
        /\ model.pts_l = fit.pts_l
        /\ \A k \in 0..MaxLen :
              AIC_of(k + 1, ll_opt.v) > AIC_of(k, ll_opt.v)

C10_Witness ==
    /\ spc = "done"
    /\ ll_opt.v < 0
    /\ AIC = 18 - 2 * ll_opt.v
    /\ popt # fit.p0

---------------------------------------------------------------------------
(* The growth variants against their reference models *)

GrowthVariants == {"SIex", "IMex", "SCex", "AMex", "PSCex", "PAMex"}

\* the reference model of a growth variant
Reference(f) ==
    CASE f = "SIex"  -> "SI"
      [] f = "IMex"  -> "IM"
      [] f = "SCex"  -> "SC"
      [] f = "AMex"  -> "AM"
      [] f = "PSCex" -> "PSC"
      [] f = "PAMex" -> "PAM"

\* the epochs among the statements of a body
Epochs(stmts) == SelectSeq(stmts, LAMBDA st : st.op = "two_pops")

\* the epochs the reference model builds from the variant's parameters,
\* its sizes being the variant's (nu1a, nu2a)
ReferenceEpochs ==
    Epochs(Body(Reference(func),
                [n \in Range(ParamNames(Reference(func))) |->
                    IF n = "nu1" THEN Env.nu1a
                    ELSE IF n = "nu2" THEN Env.nu2a
                    ELSE Env[n]]))

\* the epochs the evaluation handed to the engine
IssuedEpochs == [i \in DOMAIN Advances |-> Advances[i].stmt]

\* C11: a growth variant Xex issues the epochs of X (with sizes nu1a, nu2a)
\* followed by exactly one growth epoch of duration Te, whose migration
\* rates are those of the last epoch of X: zero for SIex, AMex, PAMex and
\* (m12, m21) for IMex, SCex, PSCex.
C11_VariantIsReferencePlusGrowth ==
    (status = "returned" /\ func \in GrowthVariants) =>
        LET r == ReferenceEpochs
            e == IssuedEpochs
            g == e[Len(e)]
        IN  /\ Len(e) = Len(r) + 1
            /\ SubSeq(e, 1, Len(r)) = r
            /\ g.T = Env.Te
            /\ g.nu1 = Closure(Env.nu1, Env.Te)
            /\ g.nu2 = Closure(Env.nu2, Env.Te)
            /\ g.m12 = r[Len(r)].m12
            /\ g.m21 = r[Len(r)].m21
            /\ func \in {"SIex", "AMex", "PAMex"} => g.m12 = 0 /\ g.m21 = 0
            /\ func \in {"IMex", "SCex", "PSCex"} =>
                  g.m12 = Env.m12 /\ g.m21 = Env.m21

C11_Witness ==
    /\ status = "returned"
    /\ func = "SCex"
    /\ Env.m12 > 0 /\ Env.m21 = 0
    /\ Env.Te > 0 /\ Env.Ts > 0
    /\ Env.nu1a # Env.nu1
    /\ Len(Advances) = 3

---------------------------------------------------------------------------
(* The values given to the log-space optimizer *)

AllPositive(l) == \A i \in DOMAIN l : l[i] > 0

\* C12 (as claimed): every entry of lower_bound, of upper_bound and of the
\* perturbed p0 that optimize_log is given is > 0, so that its logarithm is
\* finite and the search region is bounded on both sides in log space.
C12_OptimizerInputsPositive ==
    Started =>
        /\ AllPositive(fit.lower_bound)
        /\ AllPositive(fit.upper_bound)
        /\ AllPositive(fit.p0)

====
